---- MODULE Spec2Model ----
(***************************************************************************)
(* The block accumulator of node/src/components/block_accumulator.rs:      *)
(* the registry of block acceptors, the parent->child index, the set of    *)
(* already handled hashes, the local tip and the sync decision.            *)
(*                                                                         *)
(* Option<T> is modelled as a sequence: <<>> is None and <<x>> is Some(x). *)
(* A BTreeMap is a function whose DOMAIN is the set of its keys.           *)
(***************************************************************************)
EXTENDS Integers, Sequences, FiniteSets, TLC

\* ------------------------------------------------------------- bounds
MaxHeight == 2
MaxThreshold == 1
MaxTime == 1
MaxInFlight == 1
MaxCalls == 1
\* a threshold well above every height difference of the model
LargeThreshold == 10

\* configured dead-air interval (Config::dead_air_interval), in clock ticks
DeadAirInterval == 1

\* ------------------------------------------------------------- universe
Hashes == {"h1", "h2", "h3"}
Eras == {1, 2}
Validators == {"v1", "v2", "v3"}
Peers == {"p1", "p2"}
Heights == 0 .. MaxHeight

None == <<>>
Some(x) == <<x>>

\* The header a block hash commits to: the hash is a content hash, so the
\* parent, era and height of a block are functions of its hash.  h2 and h3
\* are two children of h1; h1's parent is a block that is never gossiped.
BlockParent(h) == IF h = "h1" THEN Some("h0") ELSE Some("h1")
BlockEra(h) == IF h = "h3" THEN 2 ELSE 1
BlockHeight(h) == IF h = "h1" THEN 1 ELSE 2

\* What the weight oracle answers for an era once it knows the era: the set
\* of its validators.  Era 1 has three validators, era 2 has two.
ValidatorWeight == 100
EraValidators(e) == IF e = 1 THEN {"v1", "v2", "v3"} ELSE {"v1", "v2"}

\* The verdict of the acceptor's validation of a gossiped item: Ok or one of
\* the four errors the accumulator matches on.
Verdicts == {"Ok", "InvalidGossip", "EraMismatch", "BlockHashMismatch", "InvalidState"}

\* Gossiped items.  A finality signature whose content the acceptor accepts
\* names the era of its block and any signer, or another era (one signer
\* stands for these); the rejected ones are represented by one signature per
\* block hash and verdict.
Blocks == [hash : Hashes, verdict : Verdicts]
FinalitySignatures ==
    {s \in [block_hash : Hashes, era_id : Eras, public_key : Validators,
            verdict : {"Ok"}] :
        s.era_id = BlockEra(s.block_hash) \/ s.public_key = "v1"}
    \cup {[block_hash |-> h, era_id |-> BlockEra(h), public_key |-> "v1", verdict |-> v] :
            h \in Hashes, v \in Verdicts \ {"Ok"}}

VARIABLES
    validator_matrix,             \* era -> Option<set of validators in the era>
    attempt_execution_threshold,  \* u64, from the configuration
    block_acceptors,              \* BTreeMap<BlockHash, BlockAcceptor>
    block_children,               \* BTreeMap<BlockHash, BlockHash>
    already_handled,              \* HashSet<BlockHash>
    last_progress,                \* Timestamp
    local_tip,                    \* Option<u64>
    now,                          \* the clock read by Timestamp::now()
    in_flight,                    \* store effects scheduled and not yet completed
    last,                         \* the last step: its name, argument, result, effects
    calls                         \* Option: the calls left to make, None when unbounded

vars ==
    <<validator_matrix, attempt_execution_threshold, block_acceptors, block_children,
      already_handled, last_progress, local_tip, now, in_flight, calls, last>>

\* the record of a step kept in last: the operation, its argument, what it
\* returned and the effects it scheduled
Call(op, arg, ret, effects) == [op |-> op, arg |-> arg, ret |-> ret, effects |-> effects]

\* ------------------------------------------------------------- maps
MapInsert(m, k, v) == [x \in DOMAIN m \cup {k} |-> IF x = k THEN v ELSE m[x]]
MapRemove(m, k) == [x \in DOMAIN m \ {k} |-> m[x]]
MapGet(m, k) == IF k \in DOMAIN m THEN Some(m[k]) ELSE None

SaturatingSub(a, b) == IF a > b THEN a - b ELSE 0

\* ------------------------------------------------------------- block acceptor
\* A BlockAcceptor: whether the block body is held (the body of hash h is the
\* block h commits to), the era it is bound to, the weights of that era, the
\* signers whose finality signatures it holds, and the peers that vouched.
AcceptorNew(peers) ==
    [block |-> FALSE, era |-> None, weights |-> None, signers |-> {}, peers |-> peers]

AcceptorNewWithValidatorWeights(era, evw, peers) ==
    [block |-> FALSE, era |-> Some(era), weights |-> Some(evw), signers |-> {},
     peers |-> peers]

AcceptorBlockHeight(h, acc) == IF acc.block THEN Some(BlockHeight(h)) ELSE None

AcceptorEraId(acc) == acc.era

AcceptorBlockEraAndHeight(h, acc) ==
    IF acc.block THEN Some(<<BlockEra(h), BlockHeight(h)>>) ELSE None

\* strictly more than one third of the era's total weight has signed
AcceptorHasSufficientFinality(acc) ==
    /\ acc.weights # None
    /\ 3 * ValidatorWeight * Cardinality(acc.signers \cap acc.weights[1])
         > ValidatorWeight * Cardinality(acc.weights[1])

AcceptorRefresh(era, evw, acc) ==
    [acc EXCEPT !.era = Some(era), !.weights = Some(evw), !.signers = @ \cap evw]

\* register_block of the acceptor: [err, acc]
AcceptorRegisterBlock(h, acc, block, sender) ==
    IF block.verdict # "Ok"
    THEN [err |-> block.verdict, acc |-> acc]
    ELSE IF acc.era # None /\ acc.era[1] # BlockEra(h)
    THEN [err |-> "EraMismatch", acc |-> acc]
    ELSE [err |-> "Ok",
          acc |-> [acc EXCEPT !.block = TRUE, !.era = Some(BlockEra(h)),
                              !.peers = @ \cup {sender}]]

\* register_finality_signature of the acceptor: [err, should_store, acc]
AcceptorRegisterFinalitySignature(h, acc, sig, sender) ==
    IF sig.verdict # "Ok"
    THEN [err |-> sig.verdict, should_store |-> "Nothing", acc |-> acc]
    ELSE IF acc.era # None /\ acc.era[1] # sig.era_id
    THEN [err |-> "EraMismatch", should_store |-> "Nothing", acc |-> acc]
    ELSE IF acc.weights # None /\ sig.public_key \notin acc.weights[1]
    THEN [err |-> "InvalidGossip", should_store |-> "Nothing", acc |-> acc]
    ELSE IF sig.public_key \in acc.signers \/ AcceptorHasSufficientFinality(acc)
    THEN [err |-> "Ok", should_store |-> "Nothing",
          acc |-> [acc EXCEPT !.signers = @ \cup {sig.public_key},
                              !.peers = @ \cup {sender}]]
    ELSE LET acc2 == [acc EXCEPT !.era = Some(sig.era_id),
                                 !.signers = @ \cup {sig.public_key},
                                 !.peers = @ \cup {sender}]
         IN  [err |-> "Ok",
              should_store |->
                  IF acc2.block /\ AcceptorHasSufficientFinality(acc2)
                  THEN "SufficientlySignedBlock" ELSE "SingleSignature",
              acc |-> acc2]

\* ------------------------------------------------------------- effects
Disconnect(peer) == [kind |-> "disconnect_from_peer", peer |-> peer]
SignatureId(sig) == <<sig.block_hash, sig.era_id, sig.public_key>>
\* put_block_to_storage, then put_signatures_to_storage, then Event::Stored
StoreBlockAndSignatures(h, ids) ==
    [kind |-> "put_block_then_signatures", block_hash |-> Some(h),
     finality_signature_ids |-> ids]
\* put_finality_signature_to_storage, then Event::Stored
StoreSignature(id) ==
    [kind |-> "put_finality_signature", block_hash |-> None,
     finality_signature_ids |-> {id}]
BlockAccepted(h) == [kind |-> "block_accepted", block_hash |-> h]
FinalitySignatureAccepted(id) == [kind |-> "finality_signature_accepted", id |-> id]

StoreKinds == {"put_block_then_signatures", "put_finality_signature"}

\* ------------------------------------------------------------- accumulator
ValidatorWeights(era_id) == validator_matrix[era_id]

\* get_or_register_acceptor_mut as entry(block_hash).or_insert_with(..), without
\* the already_handled test
get_or_register_acceptor_mut_or_insert(block_hash, era_id, peers) ==
    IF block_hash \in DOMAIN block_acceptors
    THEN [acceptor |-> Some(block_acceptors[block_hash]),
          block_acceptors |-> block_acceptors]
    ELSE LET acceptor ==
                 IF ValidatorWeights(era_id) # None
                 THEN AcceptorNewWithValidatorWeights(
                          era_id, ValidatorWeights(era_id)[1], peers)
                 ELSE AcceptorNew(peers)
         IN  [acceptor |-> Some(acceptor),
              block_acceptors |-> MapInsert(block_acceptors, block_hash, acceptor)]

\* Option<&mut BlockAcceptor> and the map after the call
get_or_register_acceptor_mut(block_hash, era_id, peers) ==
    IF block_hash \in DOMAIN block_acceptors
    THEN \* Entry::Occupied
         IF block_hash \in already_handled
         THEN [acceptor |-> None, block_acceptors |-> block_acceptors]
         ELSE LET acceptor ==
                      IF ValidatorWeights(era_id) # None
                      THEN AcceptorNewWithValidatorWeights(
                               era_id, ValidatorWeights(era_id)[1], peers)
                      ELSE AcceptorNew(peers)
              IN  [acceptor |-> Some(acceptor),
                   block_acceptors |-> MapInsert(block_acceptors, block_hash, acceptor)]
    ELSE \* a vacant entry is left vacant: get_mut finds nothing
         [acceptor |-> None, block_acceptors |-> block_acceptors]

highest_usable_block_height ==
    LET usable == {BlockHeight(k) : k \in
                     {k \in DOMAIN block_acceptors :
                        /\ k \notin already_handled
                        /\ AcceptorHasSufficientFinality(block_acceptors[k])
                        /\ AcceptorBlockEraAndHeight(k, block_acceptors[k]) # None}}
    IN  IF usable = {} THEN None
        ELSE Some(CHOOSE x \in usable : \A y \in usable : y <= x)

\* should_sync with height_diff < attempt_execution_threshold
should_sync_strict(maybe_starting_with_block_height, maybe_highest_usable_block_height) ==
    IF maybe_starting_with_block_height = None \/ maybe_highest_usable_block_height = None
    THEN FALSE
    ELSE LET height_diff == SaturatingSub(maybe_highest_usable_block_height[1],
                                          maybe_starting_with_block_height[1])
         IN  IF height_diff = 0 THEN TRUE
             ELSE height_diff < attempt_execution_threshold

should_sync(maybe_starting_with_block_height, maybe_highest_usable_block_height) ==
    IF maybe_starting_with_block_height = None \/ maybe_highest_usable_block_height = None
    THEN FALSE
    ELSE LET height_diff == SaturatingSub(maybe_highest_usable_block_height[1],
                                          maybe_starting_with_block_height[1])
         IN  IF height_diff = 0 THEN TRUE
             ELSE height_diff <= attempt_execution_threshold

\* next_syncable_block_hash without the has_sufficient_finality test
next_syncable_block_hash_any_child(parent_block_hash) ==
    IF parent_block_hash \notin DOMAIN block_children THEN None
    ELSE IF block_children[parent_block_hash] \notin DOMAIN block_acceptors THEN None
    ELSE Some(block_children[parent_block_hash])

next_syncable_block_hash(parent_block_hash) ==
    IF parent_block_hash \notin DOMAIN block_children THEN None
    ELSE LET child_hash == block_children[parent_block_hash]
         IN  IF child_hash \notin DOMAIN block_acceptors THEN None
             ELSE IF AcceptorHasSufficientFinality(block_acceptors[child_hash])
                  THEN Some(child_hash) ELSE None

\* the stale test with height <= local_tip
ignoring_outdated_block_inclusive(block_hash) ==
    local_tip # None /\ BlockHeight(block_hash) <= local_tip[1]

\* self.local_tip.map_or(false, |height| block.header().height() < height)
ignoring_outdated_block(block_hash) ==
    local_tip # None /\ BlockHeight(block_hash) < local_tip[1]

\* register_block recording the parent link only once an acceptor is obtained
register_block_link_after_acceptor(block, sender) ==
    LET block_hash == block.hash
        era_id == BlockEra(block_hash)
    IN
    IF ignoring_outdated_block(block_hash)
    THEN [block_acceptors |-> MapRemove(block_acceptors, block_hash),
          block_children |-> block_children,
          effects |-> {}, outcome |-> "Outdated"]
    ELSE
    LET got == get_or_register_acceptor_mut(block_hash, era_id, {sender})
    IN
    IF got.acceptor = None
    THEN [block_acceptors |-> got.block_acceptors, block_children |-> block_children,
          effects |-> {}, outcome |-> "NoAcceptor"]
    ELSE
    LET r == AcceptorRegisterBlock(block_hash, got.acceptor[1], block, sender)
        acceptors == MapInsert(got.block_acceptors, block_hash, r.acc)
    IN  [block_acceptors |->
             IF r.err = "EraMismatch" THEN MapRemove(acceptors, block_hash)
             ELSE acceptors,
         block_children |->
             IF BlockParent(block_hash) # None
             THEN MapInsert(block_children, BlockParent(block_hash)[1], block_hash)
             ELSE block_children,
         effects |->
             IF r.err \in {"InvalidGossip", "BlockHashMismatch"}
             THEN {Disconnect(sender)} ELSE {},
         outcome |-> r.err]

\* register_block: the maps after the call, the effects returned, and the
\* branch taken
register_block(block, sender) ==
    LET block_hash == block.hash
        era_id == BlockEra(block_hash)
    IN
    IF ignoring_outdated_block(block_hash)
    THEN [block_acceptors |-> MapRemove(block_acceptors, block_hash),
          block_children |-> block_children,
          effects |-> {}, outcome |-> "Outdated"]
    ELSE
    LET children ==
            IF BlockParent(block_hash) # None
            THEN MapInsert(block_children, BlockParent(block_hash)[1], block_hash)
            ELSE block_children
        got == get_or_register_acceptor_mut(block_hash, era_id, {sender})
    IN
    IF got.acceptor = None
    THEN [block_acceptors |-> got.block_acceptors, block_children |-> children,
          effects |-> {}, outcome |-> "NoAcceptor"]
    ELSE
    LET r == AcceptorRegisterBlock(block_hash, got.acceptor[1], block, sender)
        acceptors == MapInsert(got.block_acceptors, block_hash, r.acc)
    IN  [block_acceptors |->
             IF r.err = "EraMismatch" THEN MapRemove(acceptors, block_hash)
             ELSE acceptors,
         block_children |-> children,
         effects |->
             IF r.err \in {"InvalidGossip", "BlockHashMismatch"}
             THEN {Disconnect(sender)} ELSE {},
         outcome |-> r.err]

\* register_finality_signature treating an era mismatch as register_block does:
\* the acceptor is removed
register_finality_signature_era_mismatch_removes(finality_signature, sender) ==
    LET block_hash == finality_signature.block_hash
        era_id == finality_signature.era_id
        got == get_or_register_acceptor_mut(block_hash, era_id, {sender})
    IN
    IF got.acceptor = None
    THEN [block_acceptors |-> got.block_acceptors, effects |-> {},
          outcome |-> "NoAcceptor"]
    ELSE
    LET r == AcceptorRegisterFinalitySignature(
                 block_hash, got.acceptor[1], finality_signature, sender)
        acceptors == MapInsert(got.block_acceptors, block_hash, r.acc)
    IN  [block_acceptors |->
             IF r.err = "EraMismatch" THEN MapRemove(acceptors, block_hash)
             ELSE acceptors,
         effects |->
             IF r.err = "Ok" /\ r.should_store = "SufficientlySignedBlock"
             THEN {StoreBlockAndSignatures(
                       block_hash,
                       {<<block_hash, r.acc.era[1], pk>> : pk \in r.acc.signers})}
             ELSE IF r.err = "Ok" /\ r.should_store = "SingleSignature"
             THEN {StoreSignature(SignatureId(finality_signature))}
             ELSE IF r.err \in {"InvalidGossip", "BlockHashMismatch"}
             THEN {Disconnect(sender)}
             ELSE {},
         outcome |-> IF r.err = "Ok" THEN r.should_store ELSE r.err]

\* register_finality_signature: the map after the call, the effects returned,
\* and the acceptor's verdict (or that no acceptor was obtained)
register_finality_signature(finality_signature, sender) ==
    LET block_hash == finality_signature.block_hash
        era_id == finality_signature.era_id
        got == get_or_register_acceptor_mut(block_hash, era_id, {sender})
    IN
    IF got.acceptor = None
    THEN [block_acceptors |-> got.block_acceptors, effects |-> {},
          outcome |-> "NoAcceptor"]
    ELSE
    LET r == AcceptorRegisterFinalitySignature(
                 block_hash, got.acceptor[1], finality_signature, sender)
        acceptors == MapInsert(got.block_acceptors, block_hash, r.acc)
    IN  [block_acceptors |-> acceptors,
         effects |->
             IF r.err = "Ok" /\ r.should_store = "SufficientlySignedBlock"
             THEN {StoreBlockAndSignatures(
                       block_hash,
                       {<<block_hash, r.acc.era[1], pk>> : pk \in r.acc.signers})}
             ELSE IF r.err = "Ok" /\ r.should_store = "SingleSignature"
             THEN {StoreSignature(SignatureId(finality_signature))}
             ELSE IF r.err \in {"InvalidGossip", "BlockHashMismatch"}
             THEN {Disconnect(sender)}
             ELSE {},
         outcome |-> IF r.err = "Ok" THEN r.should_store ELSE r.err]

register_updated_validator_matrix ==
    [k \in DOMAIN block_acceptors |->
        LET block_acceptor == block_acceptors[k]
        IN  IF AcceptorEraId(block_acceptor) # None
               /\ ValidatorWeights(AcceptorEraId(block_acceptor)[1]) # None
            THEN AcceptorRefresh(AcceptorEraId(block_acceptor)[1],
                                 ValidatorWeights(AcceptorEraId(block_acceptor)[1])[1],
                                 block_acceptor)
            ELSE block_acceptor]

\* unwrap_or_default of an Option<u64>
UnwrapOrDefault(opt) == IF opt = None THEN 0 ELSE opt[1]

\* older_acceptors with the filter height + 1 < tip
older_acceptors_off_by_one(height) ==
    {k \in DOMAIN block_acceptors :
        UnwrapOrDefault(AcceptorBlockHeight(k, block_acceptors[k])) + 1 < height}

\* older_acceptors with the filter height <= tip
older_acceptors_inclusive(height) ==
    {k \in DOMAIN block_acceptors :
        UnwrapOrDefault(AcceptorBlockHeight(k, block_acceptors[k])) <= height}

\* the block hashes register_local_tip collects: the acceptors older than height
older_acceptors(height) ==
    {k \in DOMAIN block_acceptors :
        UnwrapOrDefault(AcceptorBlockHeight(k, block_acceptors[k])) < height}

\* local_tip overwritten with the height registered
raised_local_tip_overwrite(height) == Some(height)

\* self.local_tip.into_iter().chain(iter::once(height)).max()
raised_local_tip(height) ==
    IF local_tip # None /\ local_tip[1] > height THEN local_tip ELSE Some(height)

\* register_local_tip: the hashes collected for eviction and the state after
register_local_tip(height) ==
    LET evicted == older_acceptors(height)
    IN  [evicted |-> evicted,
         block_acceptors |-> [k \in DOMAIN block_acceptors \ evicted |-> block_acceptors[k]],
         already_handled |-> already_handled \cup evicted,
         local_tip |-> raised_local_tip(height)]

\* ------------------------------------------------------------- sync decision
Leap == [kind |-> "Leap"]
CaughtUp == [kind |-> "CaughtUp"]
BlockExec(next_block_hash) == [kind |-> "BlockExec", next_block_hash |-> next_block_hash]
BlockSync(block_hash, should_fetch_execution_state) ==
    [kind |-> "BlockSync", block_hash |-> block_hash,
     should_fetch_execution_state |-> should_fetch_execution_state]

StartingWith ==
    [kind : {"ExecutableBlock", "BlockIdentifier", "SyncedBlockIdentifier"},
     hash : Hashes, height : Heights]
    \cup [kind : {"Hash"}, hash : Hashes]
    \cup [kind : {"Nothing"}]

\* have_block answering true for every variant
have_block_always(starting_with) == starting_with.kind \in {x.kind : x \in StartingWith}

have_block(starting_with) ==
    starting_with.kind \in {"BlockIdentifier", "ExecutableBlock", "SyncedBlockIdentifier"}

\* the match of sync_instruction on starting_with: the instruction returned
\* and the fields it may write
sync_instruction_match(starting_with, maybe_highest_usable_block_height) ==
    LET should_fetch_execution_state == (FALSE = have_block(starting_with))
        same == [block_acceptors |-> block_acceptors, last_progress |-> last_progress]
    IN
    CASE starting_with.kind = "Nothing" ->
           [ret |-> Leap] @@ same
      [] starting_with.kind = "ExecutableBlock" ->
           IF maybe_highest_usable_block_height = None
           THEN [ret |-> BlockExec(None)] @@ same
           ELSE IF starting_with.height > maybe_highest_usable_block_height[1]
           THEN [ret |-> BlockExec(None),
                 block_acceptors |->
                     MapInsert(block_acceptors, starting_with.hash, AcceptorNew({})),
                 last_progress |-> last_progress]
           ELSE IF maybe_highest_usable_block_height[1] = starting_with.height
           THEN [ret |-> BlockExec(None)] @@ same
           ELSE IF SaturatingSub(maybe_highest_usable_block_height[1],
                                 attempt_execution_threshold) <= starting_with.height
           THEN [ret |-> BlockExec(next_syncable_block_hash(starting_with.hash))] @@ same
           ELSE [ret |-> Leap] @@ same
      [] starting_with.kind = "Hash" ->
           IF starting_with.hash \notin DOMAIN block_acceptors
           THEN [ret |-> Leap] @@ same
           ELSE IF should_sync(
                       AcceptorBlockHeight(starting_with.hash,
                                           block_acceptors[starting_with.hash]),
                       maybe_highest_usable_block_height)
           THEN [ret |-> BlockSync(starting_with.hash, should_fetch_execution_state),
                 block_acceptors |-> block_acceptors, last_progress |-> now]
           ELSE [ret |-> Leap] @@ same
      [] starting_with.kind = "BlockIdentifier" ->
           IF should_sync(Some(starting_with.height), maybe_highest_usable_block_height)
           THEN [ret |-> BlockSync(starting_with.hash, should_fetch_execution_state),
                 block_acceptors |-> block_acceptors, last_progress |-> now]
           ELSE [ret |-> Leap] @@ same
      [] starting_with.kind = "SyncedBlockIdentifier" ->
           IF should_sync(Some(starting_with.height), maybe_highest_usable_block_height)
           THEN IF next_syncable_block_hash(starting_with.hash) # None
                THEN [ret |-> BlockSync(next_syncable_block_hash(starting_with.hash)[1],
                                        should_fetch_execution_state),
                      block_acceptors |-> block_acceptors, last_progress |-> now]
                ELSE IF now - last_progress < DeadAirInterval
                THEN [ret |-> CaughtUp] @@ same
                ELSE [ret |-> Leap] @@ same
           ELSE [ret |-> Leap] @@ same

\* sync_instruction with the placeholder acceptor registered also when no usable
\* height is known
sync_instruction_placeholder_always(starting_with) ==
    IF starting_with.kind = "ExecutableBlock" /\ highest_usable_block_height = None
    THEN [ret |-> BlockExec(None),
          block_acceptors |->
              MapInsert(block_acceptors, starting_with.hash, AcceptorNew({})),
          last_progress |-> last_progress]
    ELSE sync_instruction_match(starting_with, highest_usable_block_height)

\* sync_instruction with the dead-air test elapsed <= dead_air_interval
sync_instruction_dead_air_inclusive(starting_with) ==
    LET r == sync_instruction_match(starting_with, highest_usable_block_height)
    IN  IF /\ starting_with.kind = "SyncedBlockIdentifier"
           /\ should_sync(Some(starting_with.height), highest_usable_block_height)
           /\ next_syncable_block_hash(starting_with.hash) = None
           /\ now - last_progress = DeadAirInterval
        THEN [r EXCEPT !.ret = CaughtUp]
        ELSE r

\* sync_instruction recording progress on every instruction other than Leap
sync_instruction_progress_unless_leap(starting_with) ==
    LET r == sync_instruction_match(starting_with, highest_usable_block_height)
    IN  IF r.ret = Leap THEN r ELSE [r EXCEPT !.last_progress = now]

\* sync_instruction recording progress on every call
sync_instruction_touching_progress(starting_with) ==
    [sync_instruction_match(starting_with, highest_usable_block_height)
        EXCEPT !.last_progress = now]

sync_instruction(starting_with) ==
    sync_instruction_match(starting_with, highest_usable_block_height)

get_peers(block_hash) ==
    IF block_hash \in DOMAIN block_acceptors
    THEN Some(block_acceptors[block_hash].peers) ELSE None

\* handle_stored without the block_accepted announcement
handle_stored_signatures_only(block_hash, finality_signature_ids) ==
    {FinalitySignatureAccepted(id) : id \in finality_signature_ids}

\* handle_stored: the announcements made for a Stored event
handle_stored(block_hash, finality_signature_ids) ==
    (IF block_hash # None THEN {BlockAccepted(block_hash[1])} ELSE {})
    \cup {FinalitySignatureAccepted(id) : id \in finality_signature_ids}

\* ------------------------------------------------------------- initial states
\* the configured threshold: none, the greatest small one, or a large one
Thresholds == {0, MaxThreshold, LargeThreshold}

\* BlockAccumulator::new: empty maps, the given local tip, last_progress = now
Init ==
    /\ validator_matrix \in
         {[e \in Eras |-> IF e \in known THEN Some(EraValidators(e)) ELSE None] :
            known \in SUBSET Eras}
    /\ attempt_execution_threshold \in Thresholds
    /\ block_acceptors = <<>>
    /\ block_children = <<>>
    /\ already_handled = {}
    /\ now = 0
    /\ last_progress = now
    /\ local_tip \in {None} \cup {Some(h) : h \in Heights}
    /\ in_flight = {}
    /\ last = Call("new", None, None, {})
    /\ calls = None

\* ------------------------------------------------------------- actions
\* one more call of the accumulator is made (register_*, get_peers,
\* sync_instruction)
CountCall ==
    IF calls = None THEN UNCHANGED calls
    ELSE calls[1] > 0 /\ calls' = Some(calls[1] - 1)

StoreTasks(effects) ==
    {[effect |-> e,
      stage |-> IF e.kind = "put_block_then_signatures" THEN "put_block"
                ELSE "put_finality_signature"] :
       e \in {x \in effects : x.kind \in StoreKinds}}

\* Event::ReceivedBlock
ReceivedBlock ==
    /\ CountCall
    /\ \E block \in Blocks, sender \in Peers :
        LET r == register_block(block, sender)
        IN  /\ block_acceptors' = r.block_acceptors
            /\ block_children' = r.block_children
            /\ last' = Call("register_block", [block |-> block, sender |-> sender],
                            r.outcome, r.effects)
            /\ UNCHANGED <<validator_matrix, attempt_execution_threshold, already_handled,
                           last_progress, local_tip, now, in_flight>>

\* Event::ReceivedFinalitySignature
ReceivedFinalitySignature ==
    /\ CountCall
    /\ \E finality_signature \in FinalitySignatures, sender \in Peers :
        LET r == register_finality_signature(finality_signature, sender)
            tasks == StoreTasks(r.effects)
        IN  /\ tasks # {} =>
                  /\ Cardinality(in_flight) < MaxInFlight
                  /\ tasks \cap in_flight = {}
            /\ block_acceptors' = r.block_acceptors
            /\ in_flight' = in_flight \cup tasks
            /\ last' = Call("register_finality_signature",
                            [finality_signature |-> finality_signature, sender |-> sender],
                            r.outcome, r.effects)
            /\ UNCHANGED <<validator_matrix, attempt_execution_threshold, block_children,
                           already_handled, last_progress, local_tip, now>>

\* Event::ExecutedBlock, and the public register_local_tip
ExecutedBlock ==
    /\ CountCall
    /\ \E height \in Heights :
        LET r == register_local_tip(height)
        IN  /\ block_acceptors' = r.block_acceptors
            /\ already_handled' = r.already_handled
            /\ local_tip' = r.local_tip
            /\ last' = Call("register_local_tip", [height |-> height], r.evicted, {})
            /\ UNCHANGED <<validator_matrix, attempt_execution_threshold, block_children,
                           last_progress, now, in_flight>>

RegisterUpdatedValidatorMatrix ==
    /\ CountCall
    /\ block_acceptors' = register_updated_validator_matrix
    /\ last' = Call("register_updated_validator_matrix", None, None, {})
    /\ UNCHANGED <<validator_matrix, attempt_execution_threshold, block_children,
                   already_handled, last_progress, local_tip, now, in_flight>>

\* Event::UpdatedValidatorMatrix: the handler does nothing
UpdatedValidatorMatrix ==
    /\ CountCall
    /\ last' = Call("updated_validator_matrix", None, None, {})
    /\ UNCHANGED <<validator_matrix, attempt_execution_threshold, block_acceptors,
                   block_children, already_handled, last_progress, local_tip, now,
                   in_flight>>

\* Event::Request(GetPeersForBlock)
GetPeersForBlock ==
    /\ CountCall
    /\ \E block_hash \in Hashes :
        /\ last' = Call("get_peers", [hash |-> block_hash], get_peers(block_hash), {})
        /\ UNCHANGED <<validator_matrix, attempt_execution_threshold, block_acceptors,
                       block_children, already_handled, last_progress, local_tip, now,
                       in_flight>>

SyncInstruction ==
    /\ CountCall
    /\ \E starting_with \in StartingWith :
        LET r == sync_instruction(starting_with)
        IN  /\ block_acceptors' = r.block_acceptors
            /\ last_progress' = r.last_progress
            /\ last' = Call("sync_instruction", starting_with, r.ret, {})
            /\ UNCHANGED <<validator_matrix, attempt_execution_threshold, block_children,
                           already_handled, local_tip, now, in_flight>>

\* the shared validator matrix learns the weights of an era
MatrixLearnsEra ==
    \E e \in Eras :
        /\ validator_matrix[e] = None
        /\ validator_matrix' = [validator_matrix EXCEPT ![e] = Some(EraValidators(e))]
        /\ last' = Call("matrix_learns_era", None, None, {})
        /\ UNCHANGED <<attempt_execution_threshold, block_acceptors, block_children,
                       already_handled, last_progress, local_tip, now, in_flight, calls>>

\* time passes
Tick ==
    /\ now < MaxTime
    /\ now' = now + 1
    /\ last' = Call("tick", None, None, {})
    /\ UNCHANGED <<validator_matrix, attempt_execution_threshold, block_acceptors,
                   block_children, already_handled, last_progress, local_tip, in_flight,
                   calls>>

\* a storage write of a scheduled store effect completes
StorageCompletes ==
    \E t \in in_flight :
        /\ t.stage # "stored"
        /\ in_flight' = (in_flight \ {t}) \cup
             {[t EXCEPT !.stage = IF @ = "put_block" THEN "put_signatures" ELSE "stored"]}
        /\ last' = Call("storage_completes", None, None, {})
        /\ UNCHANGED <<validator_matrix, attempt_execution_threshold, block_acceptors,
                       block_children, already_handled, last_progress, local_tip, now,
                       calls>>

\* Event::Stored: the announcement that ends a store effect; handle_stored
\* takes &self and is not counted as a call of its own
Stored ==
    /\ UNCHANGED calls
    /\ \E t \in in_flight :
        /\ t.stage = "stored"
        /\ in_flight' = in_flight \ {t}
        /\ last' = Call("stored",
                        [block_hash |-> t.effect.block_hash,
                         finality_signature_ids |-> t.effect.finality_signature_ids],
                        None,
                        handle_stored(t.effect.block_hash, t.effect.finality_signature_ids))
        /\ UNCHANGED <<validator_matrix, attempt_execution_threshold, block_acceptors,
                       block_children, already_handled, last_progress, local_tip, now>>

\* From BlockAccumulator::new no store effect is ever scheduled (no acceptor is
\* ever obtained), so StorageCompletes and Stored are never enabled under Spec.
Next ==
    \/ ReceivedBlock
    \/ ReceivedFinalitySignature
    \/ ExecutedBlock
    \/ RegisterUpdatedValidatorMatrix
    \/ UpdatedValidatorMatrix
    \/ GetPeersForBlock
    \/ SyncInstruction
    \/ MatrixLearnsEra
    \/ Tick

Spec == Init /\ [][Next]_vars

\* ------------------------------------------------------------- any accumulator
\* The operations are also run on accumulators that already hold acceptors:
\* InitAny is a family of accumulator values (acceptors holding a body, a body
\* with a quorum of signatures, or signatures alone; hashes already handled),
\* keys and already_handled disjoint, on which MaxCalls calls are made.
AcceptorBody(h) ==
    [block |-> TRUE, era |-> Some(BlockEra(h)), weights |-> ValidatorWeights(BlockEra(h)),
     signers |-> {}, peers |-> {"p1"}]
AcceptorFinal(h) == [AcceptorBody(h) EXCEPT !.signers = {"v1", "v2"}]
AcceptorSigned(h) == [AcceptorFinal(h) EXCEPT !.block = FALSE]

Preloaded(h) ==
    CASE h = "h1" -> {"handled", "body", "final"}
      [] h = "h2" -> {"body", "final"}
      [] h = "h3" -> {"absent", "signed", "final"}

AcceptorOf(h, kind) ==
    CASE kind = "body" -> AcceptorBody(h)
      [] kind = "final" -> AcceptorFinal(h)
      [] kind = "signed" -> AcceptorSigned(h)

InitAny ==
    /\ validator_matrix \in
         {[e \in Eras |-> IF e \in known THEN Some(EraValidators(e)) ELSE None] :
            known \in {{1}, {1, 2}}}
    /\ attempt_execution_threshold \in Thresholds
    /\ \E kind \in [Hashes -> {"absent", "handled", "body", "final", "signed"}] :
          /\ \A h \in Hashes : kind[h] \in Preloaded(h)
          /\ block_acceptors =
               [h \in {x \in Hashes : kind[x] \notin {"absent", "handled"}} |->
                   AcceptorOf(h, kind[h])]
          /\ already_handled = {h \in Hashes : kind[h] = "handled"}
    /\ block_children = [p \in {"h1"} |-> "h3"]
    /\ now = 0
    /\ last_progress = now
    /\ local_tip = None
    /\ in_flight = {}
    /\ last = Call("new", None, None, {})
    /\ calls = Some(MaxCalls)

NextAny ==
    \/ Next
    \/ StorageCompletes
    \/ Stored

SpecAny == InitAny /\ [][NextAny]_vars

\* ------------------------------------------------------------- store effects
\* The store effect of lines 370-386 for a sufficiently signed block: the
\* block hash and the ids of the signatures the acceptor holds (those of v1
\* and v2, the signers of AcceptorFinal).
SufficientStore(h) ==
    StoreBlockAndSignatures(h, {<<h, BlockEra(h), pk>> : pk \in {"v1", "v2"}})

\* Accumulators whose acceptors hold a body, a body with a quorum, or
\* signatures only, with at most one store effect of a sufficiently signed
\* block already scheduled, and with no local tip or the highest one.
InitStore ==
    /\ validator_matrix = [e \in Eras |-> Some(EraValidators(e))]
    /\ attempt_execution_threshold = 0
    /\ \E kind \in [Hashes -> {"absent", "body", "final", "signed"}] :
          /\ kind["h1"] \in {"body", "final"}
          /\ kind["h2"] \in {"body", "final"}
          /\ kind["h3"] \in {"absent", "signed"}
          /\ block_acceptors =
               [h \in {x \in Hashes : kind[x] # "absent"} |-> AcceptorOf(h, kind[h])]
          /\ in_flight \in
               {{}} \cup {StoreTasks({SufficientStore(h)}) :
                            h \in {x \in Hashes : kind[x] = "final"}}
    /\ already_handled = {}
    /\ block_children = [p \in {"h1"} |-> "h3"]
    /\ now = 0
    /\ last_progress = now
    /\ local_tip \in {None, Some(MaxHeight)}
    /\ last = Call("new", None, None, {})
    /\ calls = Some(MaxCalls)

NextStore ==
    \/ ReceivedBlock
    \/ ReceivedFinalitySignature
    \/ ExecutedBlock
    \/ StorageCompletes
    \/ Stored

SpecStore == InitStore /\ [][NextStore]_vars

\* every scheduled storage write completes and every Stored event is delivered
FairSpecStore ==
    /\ SpecStore
    /\ WF_vars(StorageCompletes)
    /\ WF_vars(Stored)

\* ------------------------------------------------------------- claims
\* C1: after any sequence of accumulator operations from construction, no
\* block hash is both a key of block_acceptors and a member of already_handled.
C1_Disjoint == DOMAIN block_acceptors \cap already_handled = {}

\* a block was registered, a local tip was registered, and sync_instruction
\* ran its ExecutableBlock case (the only place outside registration that
\* inserts an acceptor)
C1_Witness ==
    /\ last.op = "sync_instruction"
    /\ last.arg.kind = "ExecutableBlock"
    /\ local_tip # None
    /\ "h1" \in DOMAIN block_children

\* The acceptor a first sighting of block_hash in era_id would be given.
FreshAcceptor(era_id, sender) ==
    IF ValidatorWeights(era_id) # None
    THEN AcceptorNewWithValidatorWeights(era_id, ValidatorWeights(era_id)[1], {sender})
    ELSE AcceptorNew({sender})

Outdated(h) == local_tip # None /\ BlockHeight(h) < local_tip[1]

\* C2: when register_block (for a block not below local_tip) or
\* register_finality_signature is called for a hash that has no acceptor and is
\* not in already_handled, and a new acceptor accepts the item, block_acceptors
\* holds an acceptor for that hash afterwards.
C2_LazyCreationStep ==
    /\ last'.op = "register_block" =>
         LET h == last'.arg.block.hash
         IN  (/\ h \notin DOMAIN block_acceptors
              /\ h \notin already_handled
              /\ ~Outdated(h)
              /\ AcceptorRegisterBlock(h, FreshAcceptor(BlockEra(h), last'.arg.sender),
                                       last'.arg.block, last'.arg.sender).err = "Ok")
             => h \in DOMAIN block_acceptors'
    /\ last'.op = "register_finality_signature" =>
         LET sig == last'.arg.finality_signature
             h == sig.block_hash
         IN  (/\ h \notin DOMAIN block_acceptors
              /\ h \notin already_handled
              /\ AcceptorRegisterFinalitySignature(
                     h, FreshAcceptor(sig.era_id, last'.arg.sender), sig,
                     last'.arg.sender).err = "Ok")
             => h \in DOMAIN block_acceptors'

C2_LazyCreation == [][C2_LazyCreationStep]_vars

\* C3: for a block whose body is known and whose era has three validators of
\* weight 100 each, registering their finality signatures one at a time gives:
\* first signature -> SingleSignature and a single-signature store effect;
\* second -> SufficientlySignedBlock and the combined store effect; third ->
\* Nothing and no effect.  The body is known when the acceptor holds it or the
\* block was registered by the call before; the signatures counted are those
\* the acceptor holds.
C3_QuorumStep ==
    last'.op = "register_finality_signature" =>
      LET sig == last'.arg.finality_signature
          h == sig.block_hash
          held == IF h \in DOMAIN block_acceptors THEN block_acceptors[h].signers ELSE {}
          body_known ==
              \/ h \in DOMAIN block_acceptors /\ block_acceptors[h].block
              \/ /\ last.op = "register_block"
                 /\ last.arg.block = [hash |-> h, verdict |-> "Ok"]
                 /\ last.ret # "Outdated"
      IN  (/\ sig.verdict = "Ok"
           /\ sig.era_id = 1
           /\ BlockEra(h) = 1
           /\ ValidatorWeights(1) = Some({"v1", "v2", "v3"})
           /\ h \notin already_handled
           /\ body_known
           /\ sig.public_key \notin held)
          =>
          CASE Cardinality(held) = 0 ->
                 /\ last'.ret = "SingleSignature"
                 /\ last'.effects = {StoreSignature(SignatureId(sig))}
            [] Cardinality(held) = 1 ->
                 /\ last'.ret = "SufficientlySignedBlock"
                 /\ last'.effects =
                      {StoreBlockAndSignatures(
                           h, {<<h, 1, pk>> : pk \in held \cup {sig.public_key}})}
            [] OTHER ->
                 /\ last'.ret = "Nothing"
                 /\ last'.effects = {}

C3_QuorumTriggersStorage == [][C3_QuorumStep]_vars

\* the greater of an optional height and a height
MaxTip(tip, height) == IF tip # None /\ tip[1] > height THEN tip[1] ELSE height

\* C4: every register_local_tip(h) leaves local_tip at the maximum of h and the
\* local_tip before it (None counting as absent), so a sequence of them ends at
\* the maximum of the heights and the initial value; local_tip never decreases;
\* no other operation changes local_tip.
C4_MonotonicTipStep ==
    /\ last'.op = "register_local_tip" =>
          local_tip' = Some(MaxTip(local_tip, last'.arg.height))
    /\ last'.op # "register_local_tip" => local_tip' = local_tip
    /\ local_tip # None => local_tip' # None /\ local_tip'[1] >= local_tip[1]

C4_MonotonicTip == [][C4_MonotonicTipStep]_vars

\* a height below the local tip was registered and the tip stayed above it
C4_Witness ==
    /\ last.op = "register_local_tip"
    /\ local_tip # None
    /\ local_tip[1] > last.arg.height

\* the acceptor's height is known: it holds the block body
KnownHeight(h, acc) == AcceptorBlockHeight(h, acc) # None

\* C5: after register_local_tip(H), every acceptor present before the call with
\* a known height strictly less than H is absent from block_acceptors and its
\* hash is a member of already_handled.
C5_EvictionStep ==
    last'.op = "register_local_tip" =>
        \A k \in DOMAIN block_acceptors :
            (/\ KnownHeight(k, block_acceptors[k])
             /\ AcceptorBlockHeight(k, block_acceptors[k])[1] < last'.arg.height)
            => /\ k \notin DOMAIN block_acceptors'
               /\ k \in already_handled'

C5_EvictionOfOlder == [][C5_EvictionStep]_vars

\* register_local_tip(2) evicted the acceptor of h1, whose body has height 1,
\* and kept the acceptor of h2
C5_Witness ==
    /\ last.op = "register_local_tip"
    /\ "h1" \in last.ret
    /\ "h1" \in already_handled
    /\ "h1" \notin DOMAIN block_acceptors
    /\ "h2" \in DOMAIN block_acceptors

\* the acceptor of k is still present, unchanged, and k was not added to
\* already_handled
Kept(k) ==
    /\ k \in DOMAIN block_acceptors'
    /\ block_acceptors'[k] = block_acceptors[k]
    /\ k \in already_handled' => k \in already_handled

\* C6 as stated: after register_local_tip(H), every acceptor present before the
\* call with known height >= H, and every acceptor whose height is unknown, is
\* still present with its state unchanged and its hash is not added to
\* already_handled.
C6_KeepsRestAsStatedStep ==
    last'.op = "register_local_tip" =>
        \A k \in DOMAIN block_acceptors :
            (\/ ~KnownHeight(k, block_acceptors[k])
             \/ AcceptorBlockHeight(k, block_acceptors[k])[1] >= last'.arg.height)
            => Kept(k)

C6_KeepsRestStep ==
    last'.op = "register_local_tip" =>
        \A k \in DOMAIN block_acceptors :
            /\ (/\ KnownHeight(k, block_acceptors[k])
                /\ AcceptorBlockHeight(k, block_acceptors[k])[1] >= last'.arg.height)
               => Kept(k)
            /\ (~KnownHeight(k, block_acceptors[k]) /\ last'.arg.height = 0)
               => Kept(k)
            /\ (~KnownHeight(k, block_acceptors[k]) /\ last'.arg.height > 0)
               => k \notin DOMAIN block_acceptors' /\ k \in already_handled'

NoAcceptorCreated(h, acceptors_after) ==
    h \in DOMAIN acceptors_after =>
        h \in DOMAIN block_acceptors /\ acceptors_after[h] = block_acceptors[h]

\* C7, in every state: for a hash in already_handled, register_block and
\* register_finality_signature of any item for that hash from any sender create
\* no acceptor for it and return no effects.
C7_Blocked ==
    \A h \in already_handled, sender \in Peers :
        /\ \A block \in {b \in Blocks : b.hash = h} :
              /\ register_block(block, sender).effects = {}
              /\ NoAcceptorCreated(h, register_block(block, sender).block_acceptors)
        /\ \A sig \in {s \in FinalitySignatures : s.block_hash = h} :
              /\ register_finality_signature(sig, sender).effects = {}
              /\ NoAcceptorCreated(
                     h, register_finality_signature(sig, sender).block_acceptors)

\* C7, along every behaviour: a hash in already_handled stays there, and a
\* register_block or register_finality_signature step for it returns no effects
\* and creates no acceptor for it.
C7_PermanentStep ==
    /\ already_handled \subseteq already_handled'
    /\ (/\ last'.op = "register_block"
        /\ last'.arg.block.hash \in already_handled)
       => /\ last'.effects = {}
          /\ NoAcceptorCreated(last'.arg.block.hash, block_acceptors')
    /\ (/\ last'.op = "register_finality_signature"
        /\ last'.arg.finality_signature.block_hash \in already_handled)
       => /\ last'.effects = {}
          /\ NoAcceptorCreated(last'.arg.finality_signature.block_hash, block_acceptors')

\* C7: permanent blocking, as the state property of every reachable state
\* together with the step property of every step.
C7_PermanentBlocking == []C7_Blocked /\ [][C7_PermanentStep]_vars

\* register_local_tip has just added the hash of an evicted acceptor to
\* already_handled
C7_Witness ==
    /\ last.op = "register_local_tip"
    /\ last.ret # {}
    /\ last.ret \subseteq already_handled

\* max(0, a - b)
DiffOrZero(a, b) == IF a - b > 0 THEN a - b ELSE 0

\* C8: should_sync(start, H) is false whenever start or H is unknown, and
\* otherwise true exactly when max(0, H - start) is 0 or is at most the
\* threshold; with H = 100, should_sync(90, H) is true iff the threshold is at
\* least 10, should_sync(100, H) is true, and should_sync(s, H) is true for
\* every s > H.
C8_ShouldSync ==
    LET T == attempt_execution_threshold
        Hs == 0 .. (MaxHeight + MaxThreshold + 1)
    IN  /\ \A x \in {None} \cup {Some(h) : h \in Hs} :
              /\ ~should_sync(None, x)
              /\ ~should_sync(x, None)
        /\ \A s \in Hs, H \in Hs :
              should_sync(Some(s), Some(H)) <=>
                  (DiffOrZero(H, s) = 0 \/ DiffOrZero(H, s) <= T)
        /\ should_sync(Some(90), Some(100)) <=> T >= 10
        /\ should_sync(Some(100 - LargeThreshold), Some(100)) <=> T >= LargeThreshold
        /\ should_sync(Some(100), Some(100))
        /\ \A s \in 101 .. 103 : should_sync(Some(s), Some(100))

\* sync_instruction(BlockIdentifier) decided to sync a block exactly threshold
\* heights below the highest usable height, with a threshold above 0
C8_Witness ==
    /\ last.op = "sync_instruction"
    /\ last.arg.kind = "BlockIdentifier"
    /\ last.ret.kind = "BlockSync"
    /\ attempt_execution_threshold > 0
    /\ highest_usable_block_height # None
    /\ highest_usable_block_height[1] - last.arg.height = attempt_execution_threshold

\* the heights of the acceptors having sufficient finality and a known era and
\* height
SufficientHeights ==
    {BlockHeight(k) : k \in {x \in DOMAIN block_acceptors :
                               /\ AcceptorHasSufficientFinality(block_acceptors[x])
                               /\ block_acceptors[x].block
                               /\ block_acceptors[x].era # None}}

\* the recorded child of hash if that child's acceptor has sufficient finality
SufficientChild(hash) ==
    IF /\ hash \in DOMAIN block_children
       /\ block_children[hash] \in DOMAIN block_acceptors
       /\ AcceptorHasSufficientFinality(block_acceptors[block_children[hash]])
    THEN Some(block_children[hash]) ELSE None

\* C9: sync_instruction(ExecutableBlock(hash, height)), with H the highest of
\* SufficientHeights and T the threshold, returns BlockExec{next: None} when H
\* is unknown, when height > H and when height = H; BlockExec{next: c} when
\* H - T <= height < H, c the sufficient child of hash or None; Leap when
\* height < H - T; never CaughtUp or BlockSync.
C9_ExecutableBlockStep ==
    (last'.op = "sync_instruction" /\ last'.arg.kind = "ExecutableBlock") =>
        LET height == last'.arg.height
            T == attempt_execution_threshold
        IN  /\ last'.ret.kind \notin {"CaughtUp", "BlockSync"}
            /\ IF SufficientHeights = {}
               THEN last'.ret = BlockExec(None)
               ELSE LET H == CHOOSE x \in SufficientHeights :
                                 \A y \in SufficientHeights : y <= x
                    IN  /\ height >= H => last'.ret = BlockExec(None)
                        /\ (H - T <= height /\ height < H) =>
                               last'.ret = BlockExec(SufficientChild(last'.arg.hash))
                        /\ height < H - T => last'.ret = Leap

C9_ExecutableBlock == [][C9_ExecutableBlockStep]_vars

\* sync_instruction(ExecutableBlock(h1, 1)) named h3, the child of h1, as the
\* next block to execute
C9_Witness ==
    /\ last.op = "sync_instruction"
    /\ last.arg.kind = "ExecutableBlock"
    /\ last.ret = BlockExec(Some("h3"))

\* C10: sync_instruction(Hash(h)) for an h with no acceptor, and
\* sync_instruction(Nothing), return Leap and change neither last_progress nor
\* any other accumulator state.
C10_LeapOnIgnoranceStep ==
    (/\ last'.op = "sync_instruction"
     /\ \/ last'.arg.kind = "Nothing"
        \/ last'.arg.kind = "Hash" /\ last'.arg.hash \notin DOMAIN block_acceptors)
    => /\ last'.ret = Leap
       /\ UNCHANGED <<validator_matrix, attempt_execution_threshold, block_acceptors,
                      block_children, already_handled, last_progress, local_tip>>

C10_LeapOnIgnorance == [][C10_LeapOnIgnoranceStep]_vars

\* sync_instruction(Hash(h)) answered Leap some time after the last progress
C10_Witness ==
    /\ last.op = "sync_instruction"
    /\ last.arg.kind = "Hash"
    /\ last.ret = Leap
    /\ now > last_progress

\* the highest of SufficientHeights, None when there is none
HighestSufficient ==
    IF SufficientHeights = {} THEN None
    ELSE Some(CHOOSE x \in SufficientHeights : \A y \in SufficientHeights : y <= x)

\* should_sync as the rule states it: both heights known, and the highest
\* height at most the threshold above the starting height
WithinThreshold(start, H) ==
    /\ start # None
    /\ H # None
    /\ DiffOrZero(H[1], start[1]) <= attempt_execution_threshold

\* C11: sync_instruction(Hash(h)) with an acceptor present for h returns
\* BlockSync{h, should_fetch_execution_state: true} when should_sync(acceptor
\* height, H) holds and Leap otherwise (an unknown acceptor height included);
\* sync_instruction(BlockIdentifier(h, height)) returns BlockSync{h,
\* should_fetch_execution_state: false} when should_sync(height, H) holds and
\* Leap otherwise.  Neither returns CaughtUp or BlockExec.
C11_HashAndIdentifierStep ==
    /\ (/\ last'.op = "sync_instruction"
        /\ last'.arg.kind = "Hash"
        /\ last'.arg.hash \in DOMAIN block_acceptors)
       => LET h == last'.arg.hash
              start == IF block_acceptors[h].block THEN Some(BlockHeight(h)) ELSE None
          IN  last'.ret = IF WithinThreshold(start, HighestSufficient)
                          THEN BlockSync(h, TRUE) ELSE Leap
    /\ (/\ last'.op = "sync_instruction"
        /\ last'.arg.kind = "BlockIdentifier")
       => last'.ret = IF WithinThreshold(Some(last'.arg.height), HighestSufficient)
                      THEN BlockSync(last'.arg.hash, FALSE) ELSE Leap

C11_HashAndIdentifier == [][C11_HashAndIdentifierStep]_vars

\* sync_instruction(Hash(h)) for an acceptor holding its body answered
\* BlockSync with the execution state to be fetched
C11_Witness ==
    /\ last.op = "sync_instruction"
    /\ last.arg.kind = "Hash"
    /\ last.ret = BlockSync(last.arg.hash, TRUE)

\* C12: sync_instruction(SyncedBlockIdentifier(hash, height)): when
\* should_sync(height, H) holds the result is BlockSync{child,
\* should_fetch_execution_state: false} if hash has a recorded child whose
\* acceptor has sufficient finality; otherwise CaughtUp while the time elapsed
\* since last_progress is less than dead_air_interval and Leap once it is no
\* longer less; when should_sync does not hold the result is Leap.
C12_DeadAirStep ==
    (/\ last'.op = "sync_instruction"
     /\ last'.arg.kind = "SyncedBlockIdentifier")
    => last'.ret =
         IF ~WithinThreshold(Some(last'.arg.height), HighestSufficient) THEN Leap
         ELSE IF SufficientChild(last'.arg.hash) # None
         THEN BlockSync(SufficientChild(last'.arg.hash)[1], FALSE)
         ELSE IF now - last_progress < DeadAirInterval THEN CaughtUp
         ELSE Leap

C12_DeadAirFallback == [][C12_DeadAirStep]_vars

\* with should_sync holding and no syncable child, the answer was Leap because
\* the dead-air interval had run out
C12_Witness ==
    /\ last.op = "sync_instruction"
    /\ last.arg.kind = "SyncedBlockIdentifier"
    /\ last.ret = Leap
    /\ WithinThreshold(Some(last.arg.height), HighestSufficient)
    /\ SufficientChild(last.arg.hash) = None
    /\ now - last_progress = DeadAirInterval

\* the state a register_block that failed with EraMismatch leaves for hash h:
\* the block was sighted (its parent link is recorded), no acceptor is held for
\* h, and h is not in already_handled
DiscardedAcceptor(h) ==
    /\ BlockParent(h) # None
    /\ MapGet(block_children, BlockParent(h)[1]) = Some(h)
    /\ h \notin DOMAIN block_acceptors
    /\ h \notin already_handled

\* C13: when register_block fails with EraMismatch the acceptor for that hash
\* is removed and the hash is not added to already_handled; re-registering the
\* same (valid, not outdated) block for a hash left in that state gives the
\* hash a fresh acceptor in block_acceptors.
C13_EraMismatchRebuildStep ==
    last'.op = "register_block" =>
        LET h == last'.arg.block.hash
        IN  /\ last'.ret = "EraMismatch" =>
                  /\ h \notin DOMAIN block_acceptors'
                  /\ h \in already_handled' => h \in already_handled
            /\ (/\ DiscardedAcceptor(h)
                /\ ~Outdated(h)
                /\ last'.arg.block.verdict = "Ok")
               => /\ h \in DOMAIN block_acceptors'
                  /\ last'.ret = "Ok"

C13_EraMismatchRebuild == [][C13_EraMismatchRebuildStep]_vars

\* the store effects that can be scheduled
StoreEffects ==
    {SufficientStore(h) : h \in Hashes}
    \cup {StoreSignature(SignatureId(s)) : s \in FinalitySignatures}

Scheduled(e) == \E t \in in_flight : t.effect = e

\* the announcements due for a store effect: block_accepted for its block hash,
\* if it has one, and finality_signature_accepted for each of its ids
Announcements(e) ==
    (IF e.block_hash # None THEN {BlockAccepted(e.block_hash[1])} ELSE {})
    \cup {FinalitySignatureAccepted(id) : id \in e.finality_signature_ids}

\* the Stored event of e was handled and made the announcements due
Delivered(e) ==
    /\ last.op = "stored"
    /\ last.arg = [block_hash |-> e.block_hash,
                   finality_signature_ids |-> e.finality_signature_ids]
    /\ last.effects = Announcements(e)

\* the stage that follows a stage: the signatures are written after the block,
\* and the Stored event is due after the last write
StageAfter(stage) == IF stage = "put_block" THEN "put_signatures" ELSE "stored"

\* the stage a store effect starts in
FirstStage(e) ==
    IF e.kind = "put_block_then_signatures" THEN "put_block" ELSE "put_finality_signature"

\* C14, the order of one step: a block-and-signatures effect writes the block,
\* then the signatures, and only then is its Stored event handled; a
\* single-signature effect writes the signature and then its Stored event is
\* handled; the Stored event carries the effect's block hash and signature ids
\* and its handling announces block_accepted (if a block hash is carried) and
\* finality_signature_accepted per id; a SingleSignature outcome schedules an
\* effect with no block hash and exactly that signature's id, and a
\* SufficientlySignedBlock outcome one with the block hash and the ids of all
\* the signatures held.
C14_OrderStep ==
    /\ last'.op = "storage_completes" =>
          \E t \in in_flight :
              /\ t.stage # "stored"
              /\ in_flight' = (in_flight \ {t}) \cup {[t EXCEPT !.stage = StageAfter(@)]}
    /\ last'.op = "register_finality_signature" =>
          /\ in_flight \subseteq in_flight'
          /\ \A t \in in_flight' \ in_flight :
                t.effect \in last'.effects /\ t.stage = FirstStage(t.effect)
    /\ last'.op \notin {"storage_completes", "register_finality_signature", "stored"} =>
          in_flight' = in_flight
    /\ last'.op = "stored" =>
          \E t \in in_flight :
              /\ t.stage = "stored"
              /\ in_flight' = in_flight \ {t}
              /\ last'.arg = [block_hash |-> t.effect.block_hash,
                              finality_signature_ids |-> t.effect.finality_signature_ids]
              /\ last'.effects = Announcements(t.effect)
    /\ (last'.op = "register_finality_signature" /\ last'.ret = "SingleSignature") =>
          LET e == [kind |-> "put_finality_signature", block_hash |-> None,
                    finality_signature_ids |->
                        {SignatureId(last'.arg.finality_signature)}]
          IN  /\ last'.effects = {e}
              /\ [effect |-> e, stage |-> "put_finality_signature"] \in in_flight'
              /\ \A h \in Hashes : BlockAccepted(h) \notin Announcements(e)
    /\ (last'.op = "register_finality_signature"
        /\ last'.ret = "SufficientlySignedBlock") =>
          LET h == last'.arg.finality_signature.block_hash
              e == StoreBlockAndSignatures(
                       h, {<<h, last'.arg.finality_signature.era_id, pk>> :
                              pk \in block_acceptors'[h].signers})
          IN  /\ last'.effects = {e}
              /\ [effect |-> e, stage |-> "put_block"] \in in_flight'

StoredHashes(arg) ==
    (IF arg.block_hash # None THEN {arg.block_hash[1]} ELSE {})
    \cup {id[1] : id \in arg.finality_signature_ids}

\* the announcements that name block hash h
AnnouncementsFor(h) ==
    {BlockAccepted(h)}
    \cup {FinalitySignatureAccepted(SignatureId(s)) :
            s \in {x \in FinalitySignatures : x.block_hash = h}}

\* C15: a Stored event for a block hash that was evicted from block_acceptors
\* and added to already_handled (by a register_local_tip made after the store
\* effect was scheduled) is handled as a no-op: the accumulator state is
\* unchanged and no announcement is emitted for that hash.
C15_LateStoredStep ==
    last'.op = "stored" =>
        \A h \in StoredHashes(last'.arg) \cap already_handled :
            /\ UNCHANGED <<validator_matrix, attempt_execution_threshold, block_acceptors,
                           block_children, already_handled, last_progress, local_tip>>
            /\ last'.effects \cap AnnouncementsFor(h) = {}

C16_StaleBlockStep ==
    last'.op = "register_block" =>
        LET h == last'.arg.block.hash
            stale == local_tip # None /\ BlockHeight(h) < local_tip[1]
        IN  /\ stale =>
                  /\ last'.ret = "Outdated"
                  /\ last'.effects = {}
                  /\ h \notin DOMAIN block_acceptors'
                  /\ \A k \in DOMAIN block_acceptors \ {h} :
                         k \in DOMAIN block_acceptors'
                         /\ block_acceptors'[k] = block_acceptors[k]
                  /\ block_children' = block_children
                  /\ already_handled' = already_handled
            /\ ~stale =>
                  /\ last'.ret # "Outdated"
                  /\ MapGet(block_children', BlockParent(h)[1]) = Some(h)
                  /\ (h \in DOMAIN block_acceptors /\ last'.ret # "EraMismatch")
                        => h \in DOMAIN block_acceptors'

C16_StaleBlock == [][C16_StaleBlockStep]_vars

\* register_block dropped the block of h1 as outdated and removed the acceptor
\* held for h1, which is not among the already handled
C16_Witness ==
    /\ last.op = "register_block"
    /\ last.ret = "Outdated"
    /\ last.arg.block.hash = "h1"
    /\ "h1" \notin DOMAIN block_acceptors
    /\ "h1" \notin already_handled

\* C17 as stated: every sync_instruction call that returns CaughtUp, BlockExec
\* or BlockSync sets last_progress to the current time, and every call that
\* returns Leap leaves last_progress unchanged.
C17_ProgressAsStatedStep ==
    last'.op = "sync_instruction" =>
        last_progress' = IF last'.ret = Leap THEN last_progress ELSE now

C17_ProgressAsStated == [][C17_ProgressAsStatedStep]_vars

\* C17 amended: every sync_instruction call that returns BlockSync sets
\* last_progress to the current time; every call that returns Leap, CaughtUp
\* or BlockExec leaves last_progress unchanged; no other operation changes
\* last_progress.
C17_ProgressStep ==
    /\ last'.op = "sync_instruction" =>
          last_progress' = IF last'.ret.kind = "BlockSync" THEN now ELSE last_progress
    /\ last'.op # "sync_instruction" => last_progress' = last_progress

C17_Progress == [][C17_ProgressStep]_vars

\* a BlockSync instruction was given after the clock had moved, and
\* last_progress is the time of that call
C17_Witness ==
    /\ last.op = "sync_instruction"
    /\ last.ret.kind = "BlockSync"
    /\ now > 0
    /\ last_progress = now

\* what an acceptor had collected is still held by the acceptor after the call
StillHeld(before, after) ==
    /\ before.block => after.block
    /\ before.peers \subseteq after.peers
    /\ before.signers \subseteq after.signers
    /\ before.weights # None => after.weights = before.weights

\* the hash a register_block or register_finality_signature call is about
RegisteredHash(call) ==
    IF call.op = "register_block" THEN call.arg.block.hash
    ELSE call.arg.finality_signature.block_hash

\* C18: at most one acceptor exists per hash, and when register_block (for a
\* block not below local_tip) or register_finality_signature is called for a
\* hash that already has an acceptor and is not in already_handled, the item
\* is forwarded to that acceptor: unless the call ends in an era mismatch, the
\* acceptor is still in block_acceptors afterwards and still holds the block
\* body, vouching peers, validator weights and finality signatures it held
\* before the call.
C18_KeepsExistingStep ==
    last'.op \in {"register_block", "register_finality_signature"} =>
        LET h == RegisteredHash(last')
        IN  (/\ h \in DOMAIN block_acceptors
             /\ h \notin already_handled
             /\ last'.op = "register_block" => ~ignoring_outdated_block(h)
             /\ last'.ret # "EraMismatch")
            => /\ h \in DOMAIN block_acceptors'
               /\ StillHeld(block_acceptors[h], block_acceptors'[h])

C19_PeerFaultStep ==
    last'.op = "register_block" =>
        LET h == last'.arg.block.hash
        IN  /\ last'.ret \in {"InvalidGossip", "BlockHashMismatch"} =>
                 /\ last'.effects = {Disconnect(last'.arg.sender)}
                 /\ h \in DOMAIN block_acceptors'
                 /\ h \in DOMAIN block_acceptors
                 /\ block_acceptors'[h] = block_acceptors[h]
                 /\ already_handled' = already_handled
                 /\ local_tip' = local_tip
            /\ last'.ret = "InvalidState" =>
                 /\ last'.effects = {}
                 /\ DOMAIN block_acceptors' = DOMAIN block_acceptors

C20_EraMismatchStep ==
    /\ (last'.op = "register_finality_signature" /\ last'.ret = "EraMismatch") =>
          /\ RegisteredHash(last') \in DOMAIN block_acceptors
          /\ DOMAIN block_acceptors' = DOMAIN block_acceptors
          /\ last'.effects = {}
          /\ in_flight' = in_flight
    /\ (last'.op = "register_block" /\ last'.ret = "EraMismatch") =>
          /\ RegisteredHash(last') \in DOMAIN block_acceptors
          /\ DOMAIN block_acceptors' = DOMAIN block_acceptors \ {RegisteredHash(last')}
          /\ last'.effects = {}

C20_EraMismatchAsymmetry == [][C20_EraMismatchStep]_vars

\* register_block has just failed with EraMismatch for h2, which had an
\* acceptor: that acceptor is gone, h2 is not in already_handled and the
\* acceptor of h3 is still there
C20_Witness ==
    /\ last.op = "register_block"
    /\ last.ret = "EraMismatch"
    /\ last.arg.block.hash = "h2"
    /\ "h2" \notin DOMAIN block_acceptors
    /\ "h2" \notin already_handled
    /\ "h3" \in DOMAIN block_acceptors

\* register_finality_signature has just failed with EraMismatch and the
\* acceptor for its hash is still registered
C20_SignatureCase ==
    /\ last.op = "register_finality_signature"
    /\ last.ret = "EraMismatch"
    /\ last.arg.finality_signature.block_hash \in DOMAIN block_acceptors

\* C21: after register_block of a block with parent p whose height is not
\* below local_tip, block_children[p] is that block's hash, replacing any child
\* recorded earlier for p and leaving every other entry alone, whatever the
\* call's outcome (hash in already_handled, no acceptor obtained, block
\* rejected by the acceptor); a register_block of a block below local_tip and
\* every other operation leave block_children unchanged.
C21_ChainLinkStep ==
    /\ last'.op = "register_block" =>
          LET h == last'.arg.block.hash
          IN  IF ignoring_outdated_block(h)
              THEN block_children' = block_children
              ELSE /\ BlockParent(h) # None
                   /\ block_children' = MapInsert(block_children, BlockParent(h)[1], h)
    /\ last'.op # "register_block" => block_children' = block_children

C21_ChainLink == [][C21_ChainLinkStep]_vars

\* register_block of h2 was rejected by the acceptor, and h2 has replaced h3
\* as the recorded child of h1
C21_Witness ==
    /\ last.op = "register_block"
    /\ last.arg.block.hash = "h2"
    /\ last.ret = "InvalidGossip"
    /\ MapGet(block_children, "h1") = Some("h2")

\* register_block of a hash in already_handled obtained no acceptor, and the
\* link from its parent is recorded
C21_HandledCase ==
    /\ last.op = "register_block"
    /\ last.arg.block.hash \in already_handled
    /\ last.ret = "NoAcceptor"
    /\ MapGet(block_children, "h0") = Some(last.arg.block.hash)

\* an acceptor that holds a block body or collected finality signatures
HoldsData(acc) == acc.block \/ acc.signers # {}

\* C22: for every StartingWith value and every reachable state,
\* sync_instruction leaves local_tip, already_handled and block_children
\* unchanged and never removes or replaces an acceptor that holds a block body
\* or collected signatures; its only change to block_acceptors is adding an
\* empty placeholder acceptor for the hash in the ExecutableBlock case with
\* height above the highest usable height, and only for a hash that has no
\* acceptor and is not in already_handled.
C22_FrameStep ==
    last'.op = "sync_instruction" =>
        /\ local_tip' = local_tip
        /\ already_handled' = already_handled
        /\ block_children' = block_children
        /\ \A h \in DOMAIN block_acceptors :
              HoldsData(block_acceptors[h]) =>
                  /\ h \in DOMAIN block_acceptors'
                  /\ block_acceptors'[h] = block_acceptors[h]
        /\ \/ block_acceptors' = block_acceptors
           \/ /\ last'.arg.kind = "ExecutableBlock"
              /\ highest_usable_block_height # None
              /\ last'.arg.height > highest_usable_block_height[1]
              /\ last'.arg.hash \notin DOMAIN block_acceptors
              /\ last'.arg.hash \notin already_handled
              /\ block_acceptors' =
                     MapInsert(block_acceptors, last'.arg.hash, AcceptorNew({}))

====
